---- MODULE Spec2Model ----
(***************************************************************************)
(* postpic.datahandling: the Axis and Field classes.                       *)
(*                                                                         *)
(* Numbers.  numpy float64 values are modelled as exact rationals <<n, d>> *)
(* in lowest terms with d > 0; <<1, 0>> is inf, <<-1, 0>> is -inf and      *)
(* <<0, 0>> is nan, with the arithmetic and the comparisons of IEEE 754.   *)
(* <<0, 0>> also fills the array entries whose numeric value is not        *)
(* modelled (the spectrum of an FFT, the samples of a polar remap).        *)
(* Rounding and the sign of zero are not modelled: every zero is +0.0.     *)
(*                                                                         *)
(* Objects.  Python objects live in two heaps, arrays (numpy buffers) and  *)
(* axobjs (Axis instances); a Field holds references into them, so that    *)
(* copy.deepcopy, in-place array updates and attribute rebinding are       *)
(* distinguishable.  Unreferenced objects are reclaimed at the end of      *)
(* every call, as CPython's reference counting does.                       *)
(***************************************************************************)
EXTENDS Integers, Sequences, FiniteSets, TLC

\* ------------------------------------------------------------------ bounds
\* largest length of the first matrix dimension drawn for a constructed Field
MaxCells == 4
\* largest length of the second and third matrix dimension drawn
MaxCellsYZ == MaxCells \div 2
\* largest number of cell centres handed to the Axis.grid setter
MaxGrid == 4
\* largest cell-centre value handed to the Axis.grid setter
MaxCoord == 5

\* Field.__init__ takes xedges, yedges, zedges: at most three axes
MaxRank == 3

\* ---------------------------------------------------------- float64 values
NaN == <<0, 0>>

PosInf == <<1, 0>>

NegInf == <<-1, 0>>

IAbs(n) == IF n < 0 THEN -n ELSE n

IMax(a, b) == IF a < b THEN b ELSE a

IMin(a, b) == IF a < b THEN a ELSE b

RECURSIVE GCD(_, _)
GCD(a, b) == IF b = 0 THEN a ELSE GCD(b, a % b)

\* -1, 0 or 1 with the sign of the integer n
Sign(n) == IF n > 0 THEN 1 ELSE IF n < 0 THEN -1 ELSE 0

\* n / d as a float64: n / 0 is inf with the sign of n, and 0 / 0 is nan
Q(n, d) ==
    IF d = 0 THEN <<Sign(n), 0>>
    ELSE LET g == GCD(IAbs(n), IAbs(d))
             s == IF d < 0 THEN -1 ELSE 1
         IN  <<(s * n) \div g, (s * d) \div g>>

\* an integer as a float64
F(n) == <<n, 1>>

Half == <<1, 2>>

IsFinite(a) == a[2] # 0

IsNaN(a) == a = NaN

\* a + b: inf + -inf is nan
QAdd(a, b) ==
    IF IsNaN(a) \/ IsNaN(b) THEN NaN
    ELSE IF ~IsFinite(a) /\ ~IsFinite(b) THEN (IF a = b THEN a ELSE NaN)
    ELSE IF ~IsFinite(a) THEN a
    ELSE IF ~IsFinite(b) THEN b
    ELSE Q(a[1] * b[2] + b[1] * a[2], a[2] * b[2])

QNeg(a) == <<-a[1], a[2]>>

QSub(a, b) == QAdd(a, QNeg(b))

\* a * b: inf * 0 is nan
QMul(a, b) ==
    IF IsNaN(a) \/ IsNaN(b) THEN NaN
    ELSE IF ~IsFinite(a) \/ ~IsFinite(b) THEN <<Sign(a[1]) * Sign(b[1]), 0>>
    ELSE Q(a[1] * b[1], a[2] * b[2])

\* a / b: inf / inf and 0 / 0 are nan, a finite value over inf is 0 and a
\* value other than 0 over 0 is inf with the sign of the value
QDiv(a, b) ==
    IF IsNaN(a) \/ IsNaN(b) THEN NaN
    ELSE IF ~IsFinite(a)
         THEN (IF ~IsFinite(b) THEN NaN
               ELSE <<Sign(a[1]) * (IF b[1] < 0 THEN -1 ELSE 1), 0>>)
    ELSE IF ~IsFinite(b) THEN F(0)
    ELSE Q(a[1] * b[2], a[2] * b[1])

QAbs(a) == <<IAbs(a[1]), a[2]>>

\* a < b; False when either is nan
QLt(a, b) ==
    /\ ~IsNaN(a)
    /\ ~IsNaN(b)
    /\ IF IsFinite(a) /\ IsFinite(b) THEN a[1] * b[2] < b[1] * a[2]
       ELSE IF IsFinite(a) THEN b = PosInf
       ELSE IF IsFinite(b) THEN a = NegInf
       ELSE a = NegInf /\ b = PosInf

\* a <= b; False when either is nan
QLe(a, b) == ~IsNaN(a) /\ ~IsNaN(b) /\ ~QLt(b, a)

\* a ** k for an integer exponent k >= 0
RECURSIVE QPow(_, _)
QPow(a, k) == IF k = 0 THEN F(1) ELSE QMul(a, QPow(a, k - 1))

RECURSIVE QSum(_)
QSum(s) == IF s = <<>> THEN F(0) ELSE QAdd(Head(s), QSum(Tail(s)))

\* ------------------------------------------------------------ numpy helpers
\* np.diff
Diff(s) ==
    IF Len(s) < 2 THEN <<>>
    ELSE [k \in 1..(Len(s) - 1) |-> QSub(s[k + 1], s[k])]

\* np.var: nan for an empty array
Var(s) ==
    IF Len(s) = 0 THEN NaN
    ELSE LET m == QDiv(QSum(s), F(Len(s)))
             dev == [k \in 1..Len(s) |-> QMul(QSub(s[k], m), QSub(s[k], m))]
         IN  QDiv(QSum(dev), F(Len(s)))

\* the tolerance 1e-7 of Axis.islinear is 1 / LinearTolInv
LinearTolInv == 10000000

\* v < 1e-7 (without forming n * 10^7)
BelowLinearTol(v) ==
    \/ v = NegInf
    \/ /\ IsFinite(v)
       /\ \/ v[1] <= 0
          \/ (v[2] \div v[1]) > LinearTolInv
          \/ (v[2] \div v[1]) = LinearTolInv /\ (v[2] % v[1]) > 0

\* np.convolve(a, v, mode='full') for non-empty a and v
ConvolveFull(a, v) ==
    [n \in 1..(Len(a) + Len(v) - 1) |->
        QSum([m \in 1..Len(a) |->
                IF n - m + 1 \in 1..Len(v) THEN QMul(a[m], v[n - m + 1])
                ELSE F(0)])]

\* np.convolve(a, v, mode='valid') for non-empty a and v: the entries of the
\* full convolution where the shorter sequence overlaps the longer completely
ConvolveValid(a, v) ==
    LET full == ConvolveFull(a, v)
        lo == IMin(Len(a), Len(v))
        hi == IMax(Len(a), Len(v))
    IN  [k \in 1..(hi - lo + 1) |-> full[k + lo - 1]]

\* np.linspace(a, b, num) for num >= 1: a single sample is 0 * (b - a) + a,
\* which is nan for a non-finite a or b; of several, the last is set to b
Linspace(a, b, num) ==
    IF num = 1 THEN <<QAdd(QMul(F(0), QSub(b, a)), a)>>
    ELSE [k \in 1..num |->
            IF k = num THEN b
            ELSE QAdd(a, QMul(F(k - 1), QDiv(QSub(b, a), F(num - 1))))]

\* s[::2]
EverySecond(s) == [k \in 1..((Len(s) + 1) \div 2) |-> s[2 * k - 1]]

\* s[1::2]
EverySecondOdd(s) == [k \in 1..(Len(s) \div 2) |-> s[2 * k]]

\* ------------------------------------------------------------------- Axis
\* Axis.__init__
AxisInit(name, unit) ==
    [name |-> name, unit |-> unit, grid_node |-> <<>>, linear |-> "None"]

\* Axis.grid_node setter (values of the model are always 1-dimensional)
SetGridNode(ax, gn) == [ax EXCEPT !.grid_node = gn, !.linear = "None"]

\* Axis.__len__
AxisLen(ax) == IF Len(ax.grid_node) - 1 < 0 THEN 0 ELSE Len(ax.grid_node) - 1

\* an islinear that takes every grid for linear
ComputeLinearAlways(ax) == "True"

\* the value Axis.islinear computes when it does not use its cache
ComputeLinear(ax) ==
    IF BelowLinearTol(Var(Diff(ax.grid_node))) THEN "True" ELSE "False"

\* Axis.islinear(force): the axis with its cache filled
IsLinearAxis(ax, force) ==
    IF ax.linear = "None" \/ force
    THEN [ax EXCEPT !.linear = ComputeLinear(ax)]
    ELSE ax

\* Axis.grid getter, for an axis with at least one node
AxisGrid(ax) == ConvolveValid(ax.grid_node, <<Half, Half>>)

\* Axis.grid setter, for a non-empty grid: the two outer nodes are rewritten
\* one after the other, the second reading gn[-2] after the first was stored
GridSetterNodes(grid) ==
    LET gn0 == ConvolveFull(grid, <<Half, Half>>)
        n == Len(gn0)
        gn1 == [gn0 EXCEPT ![1] = QAdd(grid[1], QSub(grid[1], gn0[2]))]
    IN  [gn1 EXCEPT ![n] = QAdd(grid[Len(grid)],
                                QSub(grid[Len(grid)], gn1[n - 1]))]

AxisSetGrid(ax, grid) == SetGridNode(ax, GridSetterNodes(grid))

\* Axis.extent; <<>> stands for None
AxisExtent(ax) ==
    IF Len(ax.grid_node) < 2 THEN <<>>
    ELSE <<ax.grid_node[1], ax.grid_node[Len(ax.grid_node)]>>

\* Axis.setextent(extent, n) for a sequence extent (a tuple, list or array)
AxisSetExtent(ax, extent, n) ==
    SetGridNode(ax, Linspace(extent[1], extent[Len(extent)], n + 1))

\* Axis.setextent(extent, 1) for an extent that is a Python int
AxisSetExtentInt(ax, extent) ==
    SetGridNode(ax, <<QSub(F(extent), Half), QAdd(F(extent), Half)>>)

\* np.sort of a pair: ascending, a nan last
Sort2(p) ==
    IF IsNaN(p[1]) THEN <<p[2], p[1]>>
    ELSE IF IsNaN(p[2]) \/ QLe(p[1], p[2]) THEN <<p[1], p[2]>>
    ELSE <<p[2], p[1]>>

\* Axis.cutout(newextent)
AxisCutout(ax, newextent) ==
    LET nex == Sort2(newextent)
        keep == SelectSeq(ax.grid_node, LAMBDA gn : QLe(nex[1], gn) /\ QLe(gn, nex[2]))
    IN  SetGridNode(ax, keep)

\* an Axis.half_resolution that keeps the nodes at the odd indices instead
AxisHalfResolutionOdd(ax) == SetGridNode(ax, EverySecondOdd(ax.grid_node))

\* Axis.half_resolution
AxisHalfResolution(ax) == SetGridNode(ax, EverySecond(ax.grid_node))

\* ----------------------------------------------------------- numpy arrays
\* An ndarray is [shape, data]: data maps every index tuple (0-based entries)
\* to its value.  All arrays of the model are float64.
RECURSIVE SeqMax(_)
SeqMax(s) == IF s = <<>> THEN 0 ELSE IMax(Head(s), SeqMax(Tail(s)))

RECURSIVE SeqProd(_)
SeqProd(s) == IF s = <<>> THEN 1 ELSE Head(s) * SeqProd(Tail(s))

Indices(shape) ==
    {idx \in [1..Len(shape) -> 0..(SeqMax(shape) - 1)] :
        \A k \in 1..Len(shape) : idx[k] < shape[k]}

MkArray(shape, f(_)) == [shape |-> shape, data |-> [idx \in Indices(shape) |-> f(idx)]]

\* position of an index tuple in C (row-major) order
RECURSIVE LinearIndex(_, _)
LinearIndex(shape, idx) ==
    IF shape = <<>> THEN 0
    ELSE LET n == Len(shape)
         IN  LinearIndex(SubSeq(shape, 1, n - 1), SubSeq(idx, 1, n - 1)) * shape[n]
             + idx[n]

\* the sequence s without its entry at position p (1-based)
RemoveAt(s, p) == [k \in 1..(Len(s) - 1) |-> IF k < p THEN s[k] ELSE s[k + 1]]

\* the sequence s with v inserted so that it is at position p (1-based)
InsertAt(s, p, v) ==
    [k \in 1..(Len(s) + 1) |-> IF k < p THEN s[k] ELSE IF k = p THEN v ELSE s[k - 1]]

\* np.squeeze: drops the dimensions of length one
Squeeze(arr) ==
    LET keep == SelectSeq([k \in 1..Len(arr.shape) |-> k],
                          LAMBDA k : arr.shape[k] # 1)
        shape == [j \in 1..Len(keep) |-> arr.shape[keep[j]]]
        back(idx) == [k \in 1..Len(arr.shape) |->
                        IF arr.shape[k] = 1 THEN 0
                        ELSE idx[CHOOSE j \in 1..Len(keep) : keep[j] = k]]
    IN  MkArray(shape, LAMBDA idx : arr.data[back(idx)])

\* Field.dimensions
Dimensions(arr) == IF SeqProd(arr.shape) = 0 THEN -1 ELSE Len(arr.shape)

\* last index (exclusive) that Field.half_resolution reads along a dimension
\* of length len
LastPt(len) == len - (len % 2)

\* the in-place part of Field.half_resolution: ret = m[0:lastpt:2] is a view,
\* so ret += m[1:lastpt:2] adds every odd slice below lastpt onto the even
\* slice before it, inside the buffer of m (axis is 0-based)
HalfAccumulate(arr, axis) ==
    LET lastpt == LastPt(arr.shape[axis + 1])
    IN  [arr EXCEPT !.data =
            [idx \in DOMAIN arr.data |->
                IF idx[axis + 1] % 2 = 0 /\ idx[axis + 1] < lastpt
                THEN QAdd(arr.data[idx],
                          arr.data[[idx EXCEPT ![axis + 1] = idx[axis + 1] + 1]])
                ELSE arr.data[idx]]]

\* m[0:lastpt:2] / 2.0, taken after HalfAccumulate: the new matrix
HalfView(arr, axis) ==
    LET lastpt == LastPt(arr.shape[axis + 1])
        shape == [arr.shape EXCEPT ![axis + 1] = (lastpt + 1) \div 2]
    IN  MkArray(shape,
                LAMBDA idx : QDiv(arr.data[[idx EXCEPT ![axis + 1] = 2 * idx[axis + 1]]],
                                  F(2)))

\* np.mean(m, axis) for 0 <= axis < ndim
ArrayMean(arr, axis) ==
    LET n == arr.shape[axis + 1]
        shape == RemoveAt(arr.shape, axis + 1)
    IN  MkArray(shape,
                LAMBDA idx : QDiv(QSum([i \in 1..n |->
                                          arr.data[InsertAt(idx, axis + 1, i - 1)]]),
                                  F(n)))

\* numpy broadcasting of an operand of shape os onto a target of shape ss
Broadcastable(os, ss) ==
    /\ Len(os) <= Len(ss)
    /\ \A k \in 1..Len(os) :
          LET t == ss[Len(ss) - Len(os) + k] IN os[k] = t \/ os[k] = 1

\* the index of the operand entry that is combined with target entry idx
BroadcastIndex(os, ss, idx) ==
    [k \in 1..Len(os) |-> IF os[k] = 1 THEN 0 ELSE idx[Len(ss) - Len(os) + k]]

\* the binary operators of Field, on values
ApplyOp(op, a, b) ==
    CASE op = "+" -> QAdd(a, b)
      [] op = "-" -> QSub(a, b)
      [] op = "*" -> QMul(a, b)
      [] op = "/" -> QDiv(a, b)

\* m op= o for arrays (o broadcastable onto m), updating the buffer of m
ArrayInPlace(op, arr, other) ==
    [arr EXCEPT !.data =
        [idx \in DOMAIN arr.data |->
            ApplyOp(op, arr.data[idx],
                    other.data[BroadcastIndex(other.shape, arr.shape, idx)])]]

\* m op= c for a scalar c
ArrayInPlaceScalar(op, arr, c) ==
    [arr EXCEPT !.data = [idx \in DOMAIN arr.data |-> ApplyOp(op, arr.data[idx], c)]]

\* an array whose entries are not modelled (spectra, remapped samples)
OpaqueArray(shape) == MkArray(shape, LAMBDA idx : NaN)

\* ------------------------------------------------------------ object heap
\* A heap value h is [fields, arrays, axobjs]:
\*   fields  maps the caller's variables (slots) to Field objects
\*           [matrix: array reference, axes: list of Axis references, name, unit]
\*   arrays  maps array references to ndarrays
\*   axobjs  maps Axis references to Axis objects
\* (Field.infostring, Field.infos and Field._label are written by no modelled
\* operation and are left out.)
SetMax(S) == IF S = {} THEN 0 ELSE CHOOSE m \in S : \A x \in S : x <= m

\* a reference no live object has
Fresh(heapmap) == SetMax(DOMAIN heapmap) + 1

Put(f, k, v) == [x \in (DOMAIN f) \cup {k} |-> IF x = k THEN v ELSE f[x]]

Pos(s, x) == CHOOSE i \in 1..Len(s) : s[i] = x

Contains(s, x) == \E i \in 1..Len(s) : s[i] = x

RECURSIVE Dedup(_)
Dedup(s) ==
    IF s = <<>> THEN <<>>
    ELSE LET front == Dedup(SubSeq(s, 1, Len(s) - 1))
         IN  IF Contains(front, s[Len(s)]) THEN front ELSE Append(front, s[Len(s)])

\* the caller's variables: 1 and 2 hold constructed Fields (named "A" and
\* "B"), 3 receives the Field a non-in-place operation returns
Slots == <<1, 2, 3>>

ResultSlot == 3

LiveSlots(flds) == SelectSeq(Slots, LAMBDA s : s \in DOMAIN flds)

RECURSIVE AxesOf(_, _)
AxesOf(flds, slots) ==
    IF slots = <<>> THEN <<>>
    ELSE flds[Head(slots)].axes \o AxesOf(flds, Tail(slots))

\* Reference counting: objects no Field refers to are reclaimed.  The live
\* objects are renumbered in the order the slots reach them; an object's
\* identity is observable only through sharing, which the renumbering keeps.
Collect(h) ==
    LET slots == LiveSlots(h.fields)
        arrOrder == Dedup([j \in 1..Len(slots) |-> h.fields[slots[j]].matrix])
        axOrder == Dedup(AxesOf(h.fields, slots))
    IN  [fields |-> [s \in DOMAIN h.fields |->
                        [h.fields[s] EXCEPT
                            !.matrix = Pos(arrOrder, h.fields[s].matrix),
                            !.axes = [k \in 1..Len(h.fields[s].axes) |->
                                        Pos(axOrder, h.fields[s].axes[k])]]],
         arrays |-> [r \in 1..Len(arrOrder) |-> h.arrays[arrOrder[r]]],
         axobjs |-> [r \in 1..Len(axOrder) |-> h.axobjs[axOrder[r]]]]

EmptyHeap == [fields |-> <<>>, arrays |-> <<>>, axobjs |-> <<>>]

\* the matrix and the axes of the Field in slot s, dereferenced
MatrixOf(h, s) == h.arrays[h.fields[s].matrix]

AxisOf(h, s, i) == h.axobjs[h.fields[s].axes[i + 1]]

NumAxes(h, s) == Len(h.fields[s].axes)

\* self.matrix = arr: the attribute is bound to a new array object
BindMatrix(h, s, arr) ==
    LET r == Fresh(h.arrays)
    IN  [h EXCEPT !.arrays = Put(@, r, arr), !.fields[s].matrix = r]

\* an update of the array object self.matrix refers to, in place
UpdateMatrix(h, s, arr) == [h EXCEPT !.arrays[h.fields[s].matrix] = arr]

\* an update of the Axis object self.axes[i] refers to, in place
UpdateAxis(h, s, i, ax) == [h EXCEPT !.axobjs[h.fields[s].axes[i + 1]] = ax]

\* copy.deepcopy(field) bound to slot dst: the array and every Axis object
\* are copied (an Axis object listed twice is copied once)
DeepCopy(h, src, dst) ==
    LET f == h.fields[src]
        m == Fresh(h.arrays)
        base == SetMax(DOMAIN h.axobjs)
        distinct == Dedup(f.axes)
        copy == [f EXCEPT !.matrix = m,
                          !.axes = [k \in 1..Len(f.axes) |->
                                       base + Pos(distinct, f.axes[k])]]
    IN  [fields |-> Put(h.fields, dst, copy),
         arrays |-> Put(h.arrays, m, h.arrays[f.matrix]),
         axobjs |-> [r \in (DOMAIN h.axobjs) \cup ((base + 1)..(base + Len(distinct))) |->
                       IF r \in DOMAIN h.axobjs THEN h.axobjs[r]
                       ELSE h.axobjs[distinct[r - base]]]]

\* ------------------------------------------------------------------ Field
\* Every operation below takes the heap h and the slot s of self and yields
\* [h |-> the heap after the call, ret |-> what the call returns or raises]:
\* "self", "None", "Field" (a new Field, bound to TmpSlot) or the name of the
\* exception raised.
Outcome(h, ret) == [h |-> h, ret |-> ret]

\* the ret variable of a method while it runs
TmpSlot == 0

\* helper.axesidentify: the keys and the dimension each names
AxesIdentifyKeys == 0..2

AxesIdentify(axis) == axis

\* the extent Field.__init__ hands to _addaxis
DefaultExtent == <<F(0), F(1)>>

AxisNames == <<"x", "y", "z">>

\* a boundary argument of Field.__init__ (xedges, yedges, zedges)
NoEdges == [given |-> FALSE, nodes |-> <<>>]

Edges(nodes) == [given |-> TRUE, nodes |-> nodes]

\* Field._addaxis: the Axis it builds for the next matrix dimension
AddAxis(matrixpts, name) ==
    AxisSetExtent(AxisInit(name, ""), DefaultExtent, matrixpts)

\* Field._addaxisnodes: the Axis it builds
AddAxisNodes(nodes, name) == SetGridNode(AxisInit(name, ""), nodes)

\* Field.__init__, the axes loop: c is [err, axes] so far, k the argument
\* (1 = xedges, 2 = yedges, 3 = zedges)
RECURSIVE InitAxes(_, _, _, _)
InitAxes(arr, edges, c, k) ==
    IF k > MaxRank \/ c.err # "" THEN c
    ELSE LET have == Len(c.axes)
             want == edges[k].given \/ Dimensions(arr) > k - 1
             ax == IF edges[k].given THEN AddAxisNodes(edges[k].nodes, AxisNames[k])
                   ELSE AddAxis(arr.shape[have + 1], AxisNames[k])
         IN  IF ~want THEN InitAxes(arr, edges, c, k + 1)
             ELSE IF have >= Len(arr.shape)
                  THEN [c EXCEPT !.err = "IndexError"]
             ELSE IF arr.shape[have + 1] # AxisLen(ax)
                  THEN [c EXCEPT !.err = "ValueError"]
             ELSE InitAxes(arr, edges, [c EXCEPT !.axes = Append(@, ax)], k + 1)

\* Field.__init__(matrix, xedges, yedges, zedges, name, unit):
\* [err, matrix, axes] with the Axis objects by value
FieldInit(matrix, edges) ==
    LET arr == IF edges[1].given THEN matrix ELSE Squeeze(matrix)
        c == InitAxes(arr, edges, [err |-> "", axes |-> <<>>], 1)
    IN  [err |-> c.err, matrix |-> arr, axes |-> c.axes]

\* the constructed Field placed on the heap and bound to slot s
NewField(h, s, init, name, unit) ==
    LET m == Fresh(h.arrays)
        base == SetMax(DOMAIN h.axobjs)
        n == Len(init.axes)
    IN  [fields |-> Put(h.fields, s,
                        [matrix |-> m, axes |-> [k \in 1..n |-> base + k],
                         name |-> name, unit |-> unit]),
         arrays |-> Put(h.arrays, m, init.matrix),
         axobjs |-> [r \in (DOMAIN h.axobjs) \cup ((base + 1)..(base + n)) |->
                       IF r \in DOMAIN h.axobjs THEN h.axobjs[r]
                       ELSE init.axes[r - base]]]

\* Field.half_resolution(axis)
FieldHalfResolution(h, s, axis) ==
    IF axis \notin AxesIdentifyKeys THEN Outcome(h, "KeyError")
    ELSE LET axid == AxesIdentify(axis)
         IN  IF axid >= NumAxes(h, s) THEN Outcome(h, "IndexError")
             ELSE LET h1 == UpdateAxis(h, s, axid,
                                       AxisHalfResolution(AxisOf(h, s, axid)))
                  IN  IF axid >= Len(MatrixOf(h1, s).shape)
                      THEN Outcome(h1, "IndexError")
                      ELSE LET h2 == UpdateMatrix(h1, s,
                                         HalfAccumulate(MatrixOf(h1, s), axid))
                               h3 == BindMatrix(h2, s, HalfView(MatrixOf(h2, s), axid))
                           IN  Outcome(h3, "None")

\* an autoreduce whose scan leaves out the last axis
FirstLongerButLast(h, s, maxlen) ==
    LET over == {i \in 0..(NumAxes(h, s) - 2) : AxisLen(AxisOf(h, s, i)) > maxlen}
    IN  IF over = {} THEN -1 ELSE CHOOSE i \in over : \A j \in over : i <= j

\* Field.autoreduce: the index of the first axis longer than maxlen, or -1
FirstLonger(h, s, maxlen) ==
    LET over == {i \in 0..(NumAxes(h, s) - 1) : AxisLen(AxisOf(h, s, i)) > maxlen}
    IN  IF over = {} THEN -1 ELSE CHOOSE i \in over : \A j \in over : i <= j

\* Field.mean(axis)
FieldMean(h, s, axis) ==
    LET arr == MatrixOf(h, s)
        rank == Len(arr.shape)
        n == NumAxes(h, s)
    IN  IF Dimensions(arr) = 0 THEN Outcome(h, "self")
        ELSE IF axis < -rank \/ axis >= rank THEN Outcome(h, "AxisError")
        ELSE LET h1 == BindMatrix(h, s,
                           ArrayMean(arr, IF axis < 0 THEN axis + rank ELSE axis))
             IN  IF axis < -n \/ axis >= n THEN Outcome(h1, "IndexError")
                 ELSE Outcome([h1 EXCEPT !.fields[s].axes =
                                  RemoveAt(@, (IF axis < 0 THEN axis + n ELSE axis) + 1)],
                              "self")

\* Field.extent setter, the loop over the axes from index i on
RECURSIVE SetExtents(_, _, _, _)
SetExtents(h, s, newextent, i) ==
    IF i >= NumAxes(h, s) THEN Outcome(h, "None")
    ELSE IF i >= Len(MatrixOf(h, s).shape) \/ 2 * i + 1 > Len(newextent)
         THEN Outcome(h, "IndexError")
    ELSE SetExtents(UpdateAxis(h, s, i,
                        AxisSetExtent(AxisOf(h, s, i),
                                      SubSeq(newextent, 2 * i + 1,
                                             IMin(2 * i + 2, Len(newextent))),
                                      MatrixOf(h, s).shape[i + 1])),
                    s, newextent, i + 1)

\* Field.extent = newextent
FieldSetExtent(h, s, newextent) ==
    IF Dimensions(MatrixOf(h, s)) * 2 # Len(newextent)
    THEN Outcome(h, "AssertionError")
    ELSE SetExtents(h, s, newextent, 0)

\* Field.setaxisobj(axis, axisobj): axisobj is a reference to an Axis object
\* of the heap, and the Field stores that reference, not a copy
FieldSetAxisObj(h, s, axis, axisobj) ==
    IF axis \notin AxesIdentifyKeys THEN Outcome(h, "KeyError")
    ELSE LET axid == AxesIdentify(axis)
         IN  IF axid >= Len(MatrixOf(h, s).shape) THEN Outcome(h, "IndexError")
             ELSE IF AxisLen(h.axobjs[axisobj]) # MatrixOf(h, s).shape[axid + 1]
                  THEN Outcome(h, "ValueError")
             ELSE IF axid >= NumAxes(h, s) THEN Outcome(h, "IndexError")
             ELSE Outcome([h EXCEPT !.fields[s].axes[axid + 1] = axisobj], "None")

\* Field.islinear(), the comprehension from axis i on: Axis.islinear() of
\* every axis in turn, each filling the cache of its Axis object
RECURSIVE IsLinearAxes(_, _, _)
IsLinearAxes(h, s, i) ==
    IF i >= NumAxes(h, s) THEN h
    ELSE IsLinearAxes(UpdateAxis(h, s, i, IsLinearAxis(AxisOf(h, s, i), FALSE)),
                      s, i + 1)

\* Field.islinear(): returns the list of the axes' answers
FieldIsLinear(h, s) == Outcome(IsLinearAxes(h, s, 0), "list")

\* helper.cutout(matrix, oldextent, newextent): the matrix restricted, along
\* every dimension, to the cells whose two bounding nodes Axis.cutout keeps
\* (the index range newextent implies); lo[i] is the first cell kept along
\* dimension i and cnt[i] the number of cells kept, none of them beyond the
\* end of the matrix
HelperCutout(arr, lo, cnt) ==
    MkArray(cnt, LAMBDA idx : arr.data[[k \in 1..Len(cnt) |-> idx[k] + lo[k]]])

\* the nodes of a grid that Axis.cutout keeps, as indices
KeptNodes(ax, newextent) ==
    LET nex == Sort2(newextent)
    IN  {k \in 1..Len(ax.grid_node) :
            QLe(nex[1], ax.grid_node[k]) /\ QLe(ax.grid_node[k], nex[2])}

SetMin(S) == IF S = {} THEN 1 ELSE CHOOSE m \in S : \A x \in S : m <= x

\* Field.cutout, the loop over the axes from index i on
RECURSIVE CutAxes(_, _, _, _)
CutAxes(h, s, newextent, i) ==
    IF i >= NumAxes(h, s) THEN Outcome(h, "None")
    ELSE CutAxes(UpdateAxis(h, s, i,
                     AxisCutout(AxisOf(h, s, i),
                                SubSeq(newextent, 2 * i + 1, 2 * i + 2))),
                 s, newextent, i + 1)

\* Field.cutout(newextent)
FieldCutout(h, s, newextent) ==
    LET arr == MatrixOf(h, s)
        rank == Len(arr.shape)
        kept(i) == KeptNodes(AxisOf(h, s, i), SubSeq(newextent, 2 * i + 1, 2 * i + 2))
    IN  IF Dimensions(arr) = 0 THEN Outcome(h, "None")
        ELSE IF Dimensions(arr) * 2 # Len(newextent) THEN Outcome(h, "AssertionError")
        ELSE IF NumAxes(h, s) # rank THEN Outcome(h, "IndexError")
        ELSE LET lo == [k \in 1..rank |-> SetMin(kept(k - 1)) - 1]
                 hi == [k \in 1..rank |->
                          IMin(lo[k] + IMax(Cardinality(kept(k - 1)) - 1, 0),
                               arr.shape[k])]
                 cnt == [k \in 1..rank |-> IMax(hi[k] - lo[k], 0)]
             IN  CutAxes(BindMatrix(h, s, HelperCutout(arr, lo, cnt)), s, newextent, 0)

StartsWith(str, prefix) ==
    Len(str) >= Len(prefix) /\ SubSeq(str, 1, Len(prefix)) = prefix

\* np.roll((0, 1), axes)
RfftAxes(axes) == IF axes % 2 = 0 THEN <<0, 1>> ELSE <<1, 0>>

\* the shape of fftshift(rfft2(m, axes=rfftaxes), axes=axes): the last axis
\* of rfftaxes is transformed one-sided, the others keep their length
RfftShape(shape, rfftaxes) ==
    [shape EXCEPT ![rfftaxes[Len(rfftaxes)] + 1] = (@ \div 2) + 1]

\* len(np.fft.rfftfreq(n, d))
RfftFreqLen(n) == (n \div 2) + 1

\* np.fft.rfftfreq(n, d)[-1]
RfftFreqLast(n, d) == QMul(F(n \div 2), QDiv(F(1), QMul(F(n), d)))

\* np.fft.rfftfreq(n, d)[0]
RfftFreqFirst(n, d) == QMul(F(0), QDiv(F(1), QMul(F(n), d)))

\* Field._fft, the body of the loop for one axis of the copy, known linear
FftAxis(ax, axid, axes) ==
    LET dx == QSub(ax.grid_node[2], ax.grid_node[1])
        n == Len(ax.grid_node)
        last == RfftFreqLast(n, dx)
        extent == IF axid = axes
                  THEN <<QDiv(QNeg(last), F(2)), QDiv(last, F(2))>>
                  ELSE <<RfftFreqFirst(n, dx), last>>
    IN  AxisSetExtent([ax EXCEPT !.name = "$k_" \o ax.name \o " / k_0$",
                                 !.unit = ""],
                      extent, RfftFreqLen(n))

\* Field._fft, the loop over rfftaxes from position k on
RECURSIVE FftAxes(_, _, _, _)
FftAxes(h, rfftaxes, axes, k) ==
    IF k > Len(rfftaxes) THEN Outcome(h, "Field")
    ELSE LET axid == rfftaxes[k]
         IN  IF axid >= NumAxes(h, TmpSlot) THEN Outcome(h, "IndexError")
             ELSE LET ax == IsLinearAxis(AxisOf(h, TmpSlot, axid), FALSE)
                  IN  IF ax.linear = "True"
                      THEN FftAxes(UpdateAxis(h, TmpSlot, axid, FftAxis(ax, axid, axes)),
                                   rfftaxes, axes, k + 1)
                      ELSE Outcome(UpdateAxis(h, TmpSlot, axid, ax), "ValueError")

\* in the place of the deep copy, a second Field object that refers to the
\* array and the Axis objects of self
ShallowCopyOfSelf(h, s) == [h EXCEPT !.fields = Put(@, TmpSlot, h.fields[s])]

\* copy.deepcopy(self) as Field._fft, Field.topolar and the operators call it
CopyOfSelf(h, s) == DeepCopy(h, s, TmpSlot)

\* Field._fft(k0, axes); k0 is "None" or a number, whose value only scales
\* the spectrum
FieldFft(h, s, k0, axes) ==
    IF k0 = "None" THEN Outcome(h, "ValueError")
    ELSE IF Dimensions(MatrixOf(h, s)) # 2 THEN Outcome(h, "ValueError")
    ELSE LET rfftaxes == RfftAxes(axes)
             h1 == CopyOfSelf(h, s)
             h2 == BindMatrix(h1, TmpSlot,
                              OpaqueArray(RfftShape(MatrixOf(h, s).shape, rfftaxes)))
             h3 == [h2 EXCEPT !.fields[TmpSlot].unit = "?",
                              !.fields[TmpSlot].name = "FFT of " \o h.fields[s].name]
         IN  FftAxes(h3, rfftaxes, axes, 1)

\* helper.transfromxy2polar(matrix, extentxy, extentpolar, shape): an array
\* of the requested shape (its samples are not modelled)
TransformXY2Polar(arr, shape) == OpaqueArray(shape)

\* ndarray.T of a two-dimensional array
Transpose(arr) ==
    MkArray(<<arr.shape[2], arr.shape[1]>>, LAMBDA idx : arr.data[<<idx[2], idx[1]>>])

\* Field.topolar(extent, shape, angleoffset) with extent and shape given; the
\* angle offset is subtracted for the remap and added back before the extent
\* is stored
FieldToPolar(h, s, extent, shape) ==
    IF Len(MatrixOf(h, s).shape) # 2 \/ NumAxes(h, s) # 2
    THEN Outcome(h, "IndexError")
    ELSE LET h1 == CopyOfSelf(h, s)
             h2 == BindMatrix(h1, TmpSlot,
                              Transpose(TransformXY2Polar(MatrixOf(h, s), shape)))
             r == FieldSetExtent(h2, TmpSlot, extent)
             both == /\ StartsWith(AxisOf(r.h, TmpSlot, 0).name, "$k_")
                     /\ StartsWith(AxisOf(r.h, TmpSlot, 1).name, "$k_")
         IN  IF r.ret # "None" THEN r
             ELSE IF both
                  THEN Outcome(UpdateAxis(UpdateAxis(r.h, TmpSlot, 0,
                                   [AxisOf(r.h, TmpSlot, 0) EXCEPT !.name = "$k_\\phi$"]),
                                   TmpSlot, 1,
                                   [AxisOf(r.h, TmpSlot, 1) EXCEPT !.name = "$|k|$"]),
                               "Field")
             ELSE Outcome(r.h, "Field")

\* an operand of a binary operator: a Field (by slot) or a number
FieldOperand(s) == [isfield |-> TRUE, slot |-> s, val |-> NaN]

ScalarOperand(v) == [isfield |-> FALSE, slot |-> TmpSlot, val |-> v]

\* Field.__iadd__, __isub__, __imul__, __itruediv__ (op is "+", "-", "*", "/").
\* A matrix of rank 0 is a numpy scalar, which op= rebinds to the broadcast
\* result; an ndarray is updated in place.
FieldInPlace(h, s, op, other) ==
    LET arr == MatrixOf(h, s)
        o == MatrixOf(h, other.slot)
    IN  IF ~other.isfield
        THEN Outcome(UpdateMatrix(h, s, ArrayInPlaceScalar(op, arr, other.val)), "self")
        ELSE IF arr.shape = <<>>
        THEN Outcome([BindMatrix(h, s,
                         MkArray(o.shape,
                                 LAMBDA idx : ApplyOp(op, arr.data[<<>>], o.data[idx])))
                        EXCEPT !.fields[s].name =
                            @ \o " " \o op \o " " \o h.fields[other.slot].name],
                     "self")
        ELSE IF ~Broadcastable(o.shape, arr.shape) THEN Outcome(h, "ValueError")
        ELSE Outcome([UpdateMatrix(h, s, ArrayInPlace(op, arr, o))
                        EXCEPT !.fields[s].name =
                            @ \o " " \o op \o " " \o h.fields[other.slot].name],
                     "self")

\* Field.__add__, __sub__, __mul__, __truediv__
FieldBinary(h, s, op, other) ==
    LET r == FieldInPlace(CopyOfSelf(h, s), TmpSlot, op, other)
    IN  IF r.ret = "self" THEN Outcome(r.h, "Field") ELSE r

\* Field.__pow__: for a Field exponent numpy raises every entry to the Field
\* object, which finds no implementation and raises TypeError (an empty
\* matrix has no entry to raise); a number exponent is a natural number k,
\* held as F(k) = <<k, 1>>
FieldPow(h, s, other) ==
    IF other.isfield /\ SeqProd(MatrixOf(h, s).shape) # 0
    THEN Outcome(CopyOfSelf(h, s), "TypeError")
    ELSE IF other.isfield
    THEN Outcome(BindMatrix(CopyOfSelf(h, s), TmpSlot, MatrixOf(h, s)), "Field")
    ELSE LET h1 == CopyOfSelf(h, s)
             arr == MatrixOf(h, s)
         IN  Outcome(BindMatrix(h1, TmpSlot,
                         MkArray(arr.shape,
                                 LAMBDA idx : QPow(arr.data[idx], other.val[1]))),
                     "Field")

\* Field.__neg__
FieldNeg(h, s) ==
    LET h1 == CopyOfSelf(h, s)
    IN  Outcome(UpdateMatrix(h1, TmpSlot,
                    ArrayInPlaceScalar("*", MatrixOf(h1, TmpSlot), F(-1))),
                "Field")

\* Field.__abs__
FieldAbs(h, s) ==
    LET h1 == CopyOfSelf(h, s)
        arr == MatrixOf(h1, TmpSlot)
    IN  Outcome(BindMatrix(h1, TmpSlot,
                    MkArray(arr.shape, LAMBDA idx : QAbs(arr.data[idx]))),
                "Field")

\* the end of a call: a returned Field is bound to the caller's result
\* variable, the local ret is dropped, and unreferenced objects are reclaimed
Return(r) ==
    LET f == r.h.fields
        keep == (DOMAIN f) \ {TmpSlot}
        bound == IF r.ret = "Field" /\ TmpSlot \in DOMAIN f
                 THEN [x \in keep \cup {ResultSlot} |->
                          IF x = ResultSlot THEN f[TmpSlot] ELSE f[x]]
                 ELSE [x \in keep |-> f[x]]
    IN  Collect([r.h EXCEPT !.fields = bound])

\* ------------------------------------------------------------------ state
VARIABLES
    fields,     \* the caller's variables: slot -> Field object
    arrays,     \* heap of ndarrays
    axobjs,     \* heap of Axis objects
    call,       \* the call made last: method, self, arguments, result
    pc,         \* "idle", or "autoreduce" while Field.autoreduce recurses
    frame,      \* the running autoreduce: self, maxlen, recursion depth
    loose,      \* an Axis object of the caller that belongs to no Field
    nres,       \* the number of calls counted against MaxResults or MaxCalls
    nmut        \* the number of calls counted against MaxMutations or MaxShared

vars == <<fields, arrays, axobjs, call, pc, frame, loose, nres, nmut>>

H == [fields |-> fields, arrays |-> arrays, axobjs |-> axobjs]

NoFrame == [self |-> 0, maxlen |-> 0, depth |-> 0]

NoLoose == [grid |-> <<>>, ax |-> AxisInit("", "")]

\* the record of a call: args holds the axis or maxlen argument (empty when
\* the method has none or it is not recorded), other the slot of a Field
\* operand (0: none or a number), sym the operator symbol (for fft: k0),
\* edges the boundary arguments given to __init__ (1 = xedges, 2 = yedges,
\* 3 = zedges), again whether the call repeats the call before it (same
\* method, same self, same arguments) after that call returned
Call(op, self, args, other, sym, ret) ==
    [op |-> op, self |-> self, args |-> args, other |-> other, sym |-> sym,
     ret |-> ret, edges |-> {}, again |-> FALSE]

\* the heap after a call, the call recorded
Finish(r, c) ==
    LET h == Return(r)
    IN  /\ fields' = h.fields
        /\ arrays' = h.arrays
        /\ axobjs' = h.axobjs
        /\ call' = c

\* ----------------------------------------------------------------- inputs
\* the matrices handed to Field.__init__: every shape of rank 1..MaxRank, the
\* entries numbered 1, 2, 3, ... in C order and scaled by the slot's factor
CtorShapes ==
    UNION {{shape \in [1..r -> 1..MaxCells] :
               \A k \in 2..r : shape[k] <= MaxCellsYZ} : r \in 1..MaxRank}

CtorMatrix(shape, factor) ==
    MkArray(shape, LAMBDA idx : F(factor * (1 + LinearIndex(shape, idx))))

\* bin edges 0, 1, ..., n as np.histogram returns them for n unit bins
UnitNodes(n) == [k \in 1..(n + 1) |-> F(k - 1)]

\* the boundary arguments drawn for a matrix: every dimension either omitted
\* or given as unit bin edges
CtorEdges(shape) ==
    {e \in [1..MaxRank -> {NoEdges} \cup {Edges(UnitNodes(shape[k])) : k \in 1..Len(shape)}] :
        \A k \in 1..MaxRank :
            e[k].given => k <= Len(shape) /\ e[k] = Edges(UnitNodes(shape[k]))}

SlotName(s) == IF s = 1 THEN "A" ELSE IF s = 2 THEN "B" ELSE "R"

SlotFactor(s) == IF s = 1 THEN 1 ELSE 10

\* bin edges 0, 1, 4, 9, ...: unevenly spaced from three edges on
SquareNodes(n) == [k \in 1..(n + 1) |-> F((k - 1) * (k - 1))]

\* the Axis object the caller builds for setaxisobj(axis, axisobj): n cells
\* spanning the default extent, named after the dimension it is meant for
CallerAxis(axis, n) ==
    AxisSetExtent(AxisInit(AxisNames[axis + 1], ""), DefaultExtent, n)

\* setaxisobj calls made with an Axis object a Field holds, at most
MaxShared == 2

\* other mutating calls made where Axis objects are shared, at most
MaxCalls == 2

\* the extents drawn for the extent setter and for cutout: k pairs
WindowBounds == <<F(-1), F(2)>>

Window(k) == [j \in 1..(2 * k) |-> IF j % 2 = 1 THEN WindowBounds[1] ELSE WindowBounds[2]]

\* largest maxlen drawn for autoreduce (the smallest is -1)
MaxMaxlen == 2

\* the depth at which the interpreter ends a recursion with RecursionError
\* (sys.getrecursionlimit(), scaled to the model)
RecursionLimit == 12

\* ------------------------------------------------------------------- Init
\* one Field constructed by the caller and bound to A
Init ==
    \E shape \in CtorShapes : \E edges \in CtorEdges(shape) :
        LET init == FieldInit(CtorMatrix(shape, SlotFactor(1)), edges)
            h == Collect(NewField(EmptyHeap, 1, init, SlotName(1), "u"))
        IN  /\ init.err = ""
            /\ fields = h.fields
            /\ arrays = h.arrays
            /\ axobjs = h.axobjs
            /\ call = [Call("__init__", 1, <<>>, 0, "", "Field") EXCEPT
                           !.edges = {k \in 1..MaxRank : edges[k].given}]
            /\ pc = "idle"
            /\ frame = NoFrame
            /\ loose = NoLoose
            /\ nres = 0
            /\ nmut = 0

Idle == pc = "idle" /\ UNCHANGED <<pc, frame, loose>>

\* the length of matrix dimension axis of the Field in slot s (0 if none)
DimLen(s, axis) ==
    IF axis < Len(MatrixOf(H, s).shape) THEN MatrixOf(H, s).shape[axis + 1] ELSE 0

\* ---------------------------------------------------------------- actions
HalfResolution(s, axis) ==
    /\ Idle
    /\ Finish(FieldHalfResolution(H, s, axis),
              Call("half_resolution", s, <<axis>>, 0, "",
                   FieldHalfResolution(H, s, axis).ret))

Mean(s, axis) ==
    /\ Idle
    /\ Finish(FieldMean(H, s, axis),
              Call("mean", s, <<>>, 0, "", FieldMean(H, s, axis).ret))

SetExtent(s, k) ==
    /\ Idle
    /\ Finish(FieldSetExtent(H, s, Window(k)),
              Call("extent", s, <<>>, 0, "", FieldSetExtent(H, s, Window(k)).ret))

\* the heap with one more Axis object, which the caller has built
NewAxis(h, ax) == [h EXCEPT !.axobjs = Put(@, Fresh(h.axobjs), ax)]

\* setaxisobj(axis, axisobj) with an Axis object of n cells the caller has
\* just built; the caller keeps no other use of it
SetAxisObj(s, axis, n) ==
    /\ Idle
    /\ Finish(FieldSetAxisObj(NewAxis(H, CallerAxis(axis, n)), s, axis,
                              Fresh(H.axobjs)),
              Call("setaxisobj", s, <<>>, 0, "",
                   FieldSetAxisObj(NewAxis(H, CallerAxis(axis, n)), s, axis,
                                   Fresh(H.axobjs)).ret))

\* setaxisobj(axis, axisobj) with the Axis object the Field in slot t holds
\* at position j: one the caller passed before and kept, or read from t.axes
SetAxisObjHeld(s, axis, t, j) ==
    /\ Idle
    /\ j < NumAxes(H, t)
    /\ Finish(FieldSetAxisObj(H, s, axis, fields[t].axes[j + 1]),
              Call("setaxisobj", s, <<>>, 0, "",
                   FieldSetAxisObj(H, s, axis, fields[t].axes[j + 1]).ret))

\* islinear(), an action of the second specification; the list returned is
\* recorded as the arguments of the call
IsLinear(s) ==
    /\ Idle
    /\ Finish(FieldIsLinear(H, s),
              Call("islinear", s,
                   [i \in 1..NumAxes(H, s) |->
                       AxisOf(FieldIsLinear(H, s).h, s, i - 1).linear],
                   0, "", FieldIsLinear(H, s).ret))

Cutout(s, k) ==
    /\ Idle
    /\ Finish(FieldCutout(H, s, Window(k)),
              Call("cutout", s, <<>>, 0, "", FieldCutout(H, s, Window(k)).ret))

\* the caller calls autoreduce(maxlen): the outermost frame is entered
AutoreduceCall(s, maxlen) ==
    /\ pc = "idle"
    /\ pc' = "autoreduce"
    /\ frame' = [self |-> s, maxlen |-> maxlen, depth |-> 1]
    /\ call' = [Call("autoreduce", s, <<maxlen>>, 0, "", "running") EXCEPT
                    !.again = /\ call.op = "autoreduce"
                              /\ call.ret = "self"
                              /\ call.self = s
                              /\ call.args = <<maxlen>>]
    /\ UNCHANGED <<fields, arrays, axobjs, loose>>

\* one frame of Field.autoreduce: scan the axes; halve the first one longer
\* than maxlen and recurse, or return self through every frame
AutoreduceStep ==
    /\ pc = "autoreduce"
    /\ LET s == frame.self
           i == FirstLonger(H, s, frame.maxlen)
           r == FieldHalfResolution(H, s, i)
       IN  IF i = -1
           THEN /\ pc' = "idle"
                /\ frame' = NoFrame
                /\ Finish(Outcome(H, "self"), [call EXCEPT !.ret = "self"])
           ELSE IF r.ret # "None"
           THEN /\ pc' = "idle"
                /\ frame' = NoFrame
                /\ Finish(r, [call EXCEPT !.ret = r.ret])
           ELSE IF frame.depth >= RecursionLimit
           THEN /\ pc' = "idle"
                /\ frame' = NoFrame
                /\ Finish(r, [call EXCEPT !.ret = "RecursionError"])
           ELSE /\ pc' = "autoreduce"
                /\ frame' = [frame EXCEPT !.depth = @ + 1]
                /\ Finish(r, call)
    /\ UNCHANGED loose

Live == DOMAIN fields

\* The first specification: one Field and its mutating methods; every Axis
\* object handed to setaxisobj is new.
Next ==
    /\ UNCHANGED <<nres, nmut>>
    /\ \/ \E s \in Live, axis \in 0..MaxRank : HalfResolution(s, axis)
       \/ \E s \in Live, maxlen \in -1..MaxMaxlen : AutoreduceCall(s, maxlen)
       \/ AutoreduceStep
       \/ \E s \in Live, axis \in -1..(MaxRank - 1) : Mean(s, axis)
       \/ \E s \in Live, k \in 1..MaxRank : SetExtent(s, k)
       \/ \E s \in Live, axis \in 0..(MaxRank - 1), d \in 0..1 :
             SetAxisObj(s, axis, DimLen(s, axis) + d)
       \/ \E s \in Live, k \in 1..MaxRank : Cutout(s, k)

Spec == Init /\ [][Next]_vars

\* ------------------------------------------------------ shared Axis objects
\* The specification of setaxisobj with Axis objects in use: one Field, up
\* to MaxShared setaxisobj calls that pass an Axis object the Field holds,
\* and up to MaxCalls of the mutating operations half_resolution, autoreduce
\* (maxlen >= 0), mean, extent assignment and setaxisobj with a new Axis.
NextShared ==
    \/ /\ nmut < MaxShared
       /\ nmut' = nmut + 1
       /\ UNCHANGED nres
       /\ \E s \in Live, t \in Live, axis \in 0..(MaxRank - 1), j \in 0..(MaxRank - 1) :
             SetAxisObjHeld(s, axis, t, j)
    \/ /\ nres < MaxCalls
       /\ nres' = nres + 1
       /\ UNCHANGED nmut
       /\ \/ \E s \in Live, axis \in 0..(MaxRank - 1) : HalfResolution(s, axis)
          \/ \E s \in Live, maxlen \in 0..MaxMaxlen : AutoreduceCall(s, maxlen)
          \/ \E s \in Live, axis \in -1..(MaxRank - 1) : Mean(s, axis)
          \/ \E s \in Live : SetExtent(s, Len(MatrixOf(H, s).shape))
          \/ \E s \in Live, axis \in 0..(MaxRank - 1), d \in 0..1 :
                SetAxisObj(s, axis, DimLen(s, axis) + d)
    \/ /\ UNCHANGED <<nres, nmut>>
       /\ AutoreduceStep

SpecShared == Init /\ [][NextShared]_vars

\* ------------------------------------------------- operators and copies
\* The second specification: two Fields A and B of one shape, the
\* non-in-place operations applied to A (their result bound to R), and
\* mutating calls on A, B and R, islinear() among them: it fills the
\* linearity caches that fft reads.

\* the boundary arguments drawn: all omitted or, for a matrix of one or two
\* dimensions, unit bin edges throughout or unit bin edges with the edges
\* 0, 1, 4, ... along one dimension
OpsEdges(shape) ==
    {[k \in 1..MaxRank |-> NoEdges]}
    \cup {[k \in 1..MaxRank |->
             IF k > Len(shape) THEN NoEdges
             ELSE IF k = j THEN Edges(SquareNodes(shape[k]))
             ELSE Edges(UnitNodes(shape[k]))] :
           j \in IF Len(shape) < MaxRank THEN 0..Len(shape) ELSE {}}

\* the number a Field is combined with
Scalar == F(2)

Operands == {FieldOperand(2), ScalarOperand(Scalar)}

Symbols == {"+", "-", "*", "/"}

\* the polar grid asked of topolar: two angles by one radius
PolarShape == <<2, 1>>

\* non-in-place operations made in the second specification, at most
MaxResults == 1

\* mutating calls made in the second specification, at most
MaxMutations == 1

InitOps ==
    \E shape \in CtorShapes : \E edges \in OpsEdges(shape) :
        LET a == FieldInit(CtorMatrix(shape, SlotFactor(1)), edges)
            b == FieldInit(CtorMatrix(shape, SlotFactor(2)), edges)
            h == Collect(NewField(NewField(EmptyHeap, 1, a, SlotName(1), "u"),
                                  2, b, SlotName(2), "u"))
        IN  /\ a.err = ""
            /\ b.err = ""
            /\ fields = h.fields
            /\ arrays = h.arrays
            /\ axobjs = h.axobjs
            /\ call = [Call("__init__", 2, <<>>, 0, "", "Field") EXCEPT
                           !.edges = {k \in 1..MaxRank : edges[k].given}]
            /\ pc = "idle"
            /\ frame = NoFrame
            /\ loose = NoLoose
            /\ nres = 0
            /\ nmut = 0

\* r = A sym other
Binary(sym, other) ==
    /\ Idle
    /\ Finish(FieldBinary(H, 1, sym, other),
              Call("binary", 1, <<>>, other.slot, sym,
                   FieldBinary(H, 1, sym, other).ret))

\* r = A ** other
Pow(other) ==
    /\ Idle
    /\ Finish(FieldPow(H, 1, other),
              Call("pow", 1, <<>>, other.slot, "**", FieldPow(H, 1, other).ret))

\* r = -A
Neg ==
    /\ Idle
    /\ Finish(FieldNeg(H, 1), Call("neg", 1, <<>>, 0, "", FieldNeg(H, 1).ret))

\* r = abs(A)
Abs ==
    /\ Idle
    /\ Finish(FieldAbs(H, 1), Call("abs", 1, <<>>, 0, "", FieldAbs(H, 1).ret))

\* r = A.fft(k0, axes)
Fft(k0, axes) ==
    /\ Idle
    /\ Finish(FieldFft(H, 1, k0, axes),
              Call("fft", 1, <<axes>>, 0, k0, FieldFft(H, 1, k0, axes).ret))

\* r = A.topolar(extent, shape)
ToPolar ==
    /\ Idle
    /\ Finish(FieldToPolar(H, 1, Window(2), PolarShape),
              Call("topolar", 1, <<>>, 0, "",
                   FieldToPolar(H, 1, Window(2), PolarShape).ret))

\* the Field in slot s: s sym= other
InPlace(s, sym, other) ==
    /\ Idle
    /\ Finish(FieldInPlace(H, s, sym, other),
              Call("inplace", s, <<>>, other.slot, sym,
                   FieldInPlace(H, s, sym, other).ret))

NextOps ==
    \/ /\ nres < MaxResults
       /\ nres' = nres + 1
       /\ UNCHANGED nmut
       /\ \/ \E sym \in Symbols, other \in Operands : Binary(sym, other)
          \/ \E other \in Operands : Pow(other)
          \/ Neg
          \/ Abs
          \/ \E k0 \in {"None", "1"}, axes \in 0..1 : Fft(k0, axes)
          \/ ToPolar
    \/ /\ nmut < MaxMutations
       /\ nmut' = nmut + 1
       /\ UNCHANGED nres
       /\ \/ \E s \in Live, sym \in Symbols, other \in Operands : InPlace(s, sym, other)
          \/ \E s \in Live, axis \in 0..1 : HalfResolution(s, axis)
          \/ \E s \in Live : Mean(s, -1)
          \/ \E s \in Live : SetExtent(s, Len(MatrixOf(H, s).shape))
          \/ \E s \in Live : IsLinear(s)

SpecOps == InitOps /\ [][NextOps]_vars

\* ------------------------------------------------------- the grid setter
\* The third specification: an Axis on its own, whose grid the caller
\* assigns.  The grids drawn are the strictly increasing sequences of 1 to
\* MaxGrid cell centres among 0..MaxCoord.
Grids ==
    UNION {{g \in [1..n -> 0..MaxCoord] : \A k \in 1..(n - 1) : g[k] < g[k + 1]} :
              n \in 1..MaxGrid}

InitGrid ==
    \E g \in Grids :
        /\ fields = EmptyHeap.fields
        /\ arrays = EmptyHeap.arrays
        /\ axobjs = EmptyHeap.axobjs
        /\ call = Call("Axis", 0, <<>>, 0, "", "Axis")
        /\ pc = "idle"
        /\ frame = NoFrame
        /\ loose = [grid |-> [k \in 1..Len(g) |-> F(g[k])], ax |-> AxisInit("x", "")]
        /\ nres = 0
        /\ nmut = 0

\* ax.grid = grid
GridAssign ==
    /\ call.op = "Axis"
    /\ loose' = [loose EXCEPT !.ax = AxisSetGrid(loose.ax, loose.grid)]
    /\ call' = Call("grid", 0, <<>>, 0, "", "None")
    /\ UNCHANGED <<fields, arrays, axobjs, pc, frame, nres, nmut>>

NextGrid == GridAssign

SpecGrid == InitGrid /\ [][NextGrid]_vars

\* ------------------------------------------------------------- properties
\* the Field has one Axis per matrix dimension, each as long as the dimension
Coherent(h, s) ==
    /\ NumAxes(h, s) = Len(MatrixOf(h, s).shape)
    /\ \A i \in 0..(NumAxes(h, s) - 1) :
          AxisLen(AxisOf(h, s, i)) = MatrixOf(h, s).shape[i + 1]

\* C1: after construction and after every sequence of half_resolution,
\* autoreduce, mean, extent assignments and setaxisobj calls (accepted or
\* rejected with ValueError), a Field has exactly one Axis per matrix
\* dimension and len(axes[i]) == matrix.shape[i] for every i.
C1_AxesMatchMatrix == \A s \in Live : Coherent(H, s)

\* the heap after the step
HNext == [fields |-> fields', arrays |-> arrays', axobjs |-> axobjs']

\* old and new are the Field's matrix and axes before and after a halving of
\* dimension a (0-based): the effect C3 describes
Halved(oldm, oldax, newm, newax, a) ==
    LET L == oldm.shape[a + 1]
        on == oldax[a + 1].grid_node
        nn == newax[a + 1].grid_node
    IN  /\ newm.shape = [oldm.shape EXCEPT ![a + 1] = L \div 2]
        /\ \A idx \in Indices(newm.shape) :
              newm.data[idx] =
                  QDiv(QAdd(oldm.data[[idx EXCEPT ![a + 1] = 2 * idx[a + 1]]],
                            oldm.data[[idx EXCEPT ![a + 1] = 2 * idx[a + 1] + 1]]),
                       F(2))
        /\ Len(newax) = Len(oldax)
        /\ AxisLen(newax[a + 1]) = L \div 2
        /\ Len(nn) = (Len(on) + 1) \div 2
        /\ \A k \in 1..Len(nn) : nn[k] = on[2 * k - 1]
        /\ newax[a + 1].name = oldax[a + 1].name
        /\ newax[a + 1].unit = oldax[a + 1].unit
        /\ \A j \in 1..Len(oldax) : j # a + 1 => newax[j] = oldax[j]

AxesByValue(h, s) == [k \in 1..NumAxes(h, s) |-> AxisOf(h, s, k - 1)]

C4_AutoreduceTerminates ==
    call.op = "autoreduce" => call.ret # "RecursionError"

\* the axes of a freshly constructed Field whose boundary argument was omitted
DefaultAxes == {i \in 0..(NumAxes(H, 1) - 1) : (i + 1) \notin call.edges}

\* C9: an axis constructed without a boundary spec has shape[i]
\* cells at the integer positions 0, 1, ..., shape[i]-1.
C9_IntegerIndexed ==
    call.op = "__init__" =>
        \A i \in DefaultAxes :
            /\ AxisLen(AxisOf(H, 1, i)) = MatrixOf(H, 1).shape[i + 1]
            /\ AxisGrid(AxisOf(H, 1, i)) =
                   [k \in 1..MatrixOf(H, 1).shape[i + 1] |-> F(k - 1)]

\* C10: half_resolution, autoreduce, cutout and mean return the Field they
\* were called on whenever they return.
C10_ReturnsSelf ==
    (/\ call.op \in {"half_resolution", "autoreduce", "cutout", "mean"}
     /\ call.ret \in {"None", "self", "Field"})
        => call.ret = "self"

\* C2: the Field fft returns for a 2-D Field with linear axes has, along both
\* dimensions, an axis as long as its matrix.
C2_FftAxesMatch ==
    (call.op = "fft" /\ call.ret = "Field") => Coherent(H, ResultSlot)

\* C5: a strictly increasing grid assigned through the Axis.grid setter is
\* read back unchanged (the model's arithmetic is exact), and the axis has as
\* many cells as the grid has centres.
C5_GridRoundTrip ==
    call.op = "grid" =>
        /\ AxisLen(loose.ax) = Len(loose.grid)
        /\ AxisGrid(loose.ax) = loose.grid

\* C6: the result of A sym B for two Fields of one shape, sym among +, -, *,
\* / and **, is named "<A's name> sym <B's name>"; the result of A sym c for a
\* number c keeps A's name.
C6_ResultName ==
    call.op \in {"binary", "pow"} =>
        IF call.other # 0
        THEN MatrixOf(H, 1).shape = MatrixOf(H, 2).shape =>
                 /\ call.ret = "Field"
                 /\ fields[ResultSlot].name =
                        fields[1].name \o " " \o call.sym \o " " \o fields[2].name
        ELSE /\ call.ret = "Field"
             /\ fields[ResultSlot].name = fields[1].name

\* the Field in slot s by value: matrix, axes (nodes, name, unit, linearity
\* cache), name and unit
FieldValue(h, s) ==
    [matrix |-> MatrixOf(h, s), axes |-> AxesByValue(h, s),
     name |-> h.fields[s].name, unit |-> h.fields[s].unit]

\* no two Fields refer to one array or to one Axis object
NoSharing(h) ==
    \A s, t \in DOMAIN h.fields :
        s # t =>
            /\ h.fields[s].matrix # h.fields[t].matrix
            /\ \A i \in 1..Len(h.fields[s].axes), j \in 1..Len(h.fields[t].axes) :
                  h.fields[s].axes[i] # h.fields[t].axes[j]

NonInPlaceOps == {"binary", "pow", "neg", "abs", "fft", "topolar"}

\* the one Field a call may change: the result variable for a non-in-place
\* operation that returns, self for a mutating call
Target(c) ==
    IF c.op \in NonInPlaceOps
    THEN IF c.ret = "Field" THEN ResultSlot ELSE TmpSlot
    ELSE c.self

\* C7: a non-in-place operation changes neither operand and returns a Field
\* sharing no array and no Axis object with any other Field; every mutating
\* call (half_resolution, mean, in-place arithmetic, extent assignment,
\* islinear) changes the Field it is called on and no other.
C7_CopiesIndependent ==
    [][/\ NoSharing(HNext)
       /\ \A t \in DOMAIN fields :
             t # Target(call') =>
                 /\ t \in DOMAIN fields'
                 /\ FieldValue(HNext, t) = FieldValue(H, t)]_vars

\* the result of A + B was halved and A still has its matrix
C7_ResultHalved ==
    /\ call.op = "half_resolution"
    /\ call.self = ResultSlot
    /\ call.ret = "None"
    /\ fields[ResultSlot].name = "A + B"
    /\ MatrixOf(H, ResultSlot).shape # MatrixOf(H, 1).shape
    /\ MatrixOf(H, 1) = CtorMatrix(MatrixOf(H, 1).shape, SlotFactor(1))

\* the nodes are not evenly spaced
Uneven(gn) == \E k \in 2..(Len(gn) - 1) : QSub(gn[k + 1], gn[k]) # QSub(gn[2], gn[1])

\* C8: fft on a Field that is not 2-D, or whose first or second axis has
\* unevenly spaced nodes, raises ValueError, binds no Field, and leaves every
\* Field as it was.
C8_FftRejects ==
    [][(/\ call'.op = "fft"
        /\ \/ Len(MatrixOf(H, 1).shape) # 2
           \/ \E i \in 0..1 : i < NumAxes(H, 1) /\ Uneven(AxisOf(H, 1, i).grid_node))
         => (/\ call'.ret = "ValueError"
             /\ fields' = fields
             /\ arrays' = arrays
             /\ axobjs' = axobjs)]_vars

\* fft with k0 given was refused for a 2-D Field whose first axis is uneven
C8_UnevenRefused ==
    /\ call.op = "fft"
    /\ call.sym = "1"
    /\ call.args[1] = 1
    /\ call.ret = "ValueError"
    /\ Len(MatrixOf(H, 1).shape) = 2
    /\ Uneven(AxisOf(H, 1, 0).grid_node)
    /\ ~Uneven(AxisOf(H, 1, 1).grid_node)

\* C11: when autoreduce(maxlen) has returned, every axis has at most maxlen
\* cells, and a second autoreduce(maxlen) on the same Field returns self and
\* leaves the matrix, the nodes of every axis and the number of axes as they
\* were.
C11_AutoreduceIdempotent ==
    [][/\ (call'.op = "autoreduce" /\ call'.ret = "self") =>
              \A i \in 0..(NumAxes(HNext, call'.self) - 1) :
                  AxisLen(AxisOf(HNext, call'.self, i)) <= call'.args[1]
       /\ (call'.op = "autoreduce" /\ call'.again) =>
              /\ call'.ret \in {"running", "self"}
              /\ fields' = fields
              /\ arrays' = arrays
              /\ axobjs' = axobjs]_vars

\* a second autoreduce(1) has returned on a 2-D Field whose first axis, of
\* three cells, the first call had halved to one
C11_SecondReturned ==
    /\ call.op = "autoreduce"
    /\ call.again
    /\ call.ret = "self"
    /\ call.args = <<1>>
    /\ NumAxes(H, call.self) = 2
    /\ AxisOf(H, call.self, 0).grid_node = <<F(0), Q(2, 3)>>

====
